---- MODULE Spec2Model ----
(***************************************************************************)
(* A model of the HTML cleaners of LLMindMap (src/src/cleaner/*.py).       *)
(*                                                                         *)
(* Text is modelled as sequences of tokens (TLA+ strings).  A token is a   *)
(* word, a separator written by the code (" | ", " ; ", " ", "\n"), or a   *)
(* piece of markup at some level of HTML-entity encoding:                  *)
(*     "<b>"  ->  "&lt;b&gt;"  ->  "&amp;lt;b&amp;gt;"  ->  ...            *)
(* so that html.unescape and the parser's entity decoding are functions    *)
(* that change the text, and a round trip can fail.                        *)
(***************************************************************************)
EXTENDS Naturals, Integers, Sequences, FiniteSets, TLC

VARIABLES
    doc,            \* generic cleaner: the html document (sequence of source nodes)
    pc,             \* position of the running cleaner
    idx,            \* loop index of the current loop
    real_tables,    \* extract_real_tables: results
    found,          \* extract_escaped_tables: found
    escaped_tables, \* extract_escaped_tables: final_list
    visible_text,   \* extract_visible_text: the joined text
    all_lines,      \* main: all_lines
    cleaned,        \* main: the text written to the output file
    faults,         \* outcome of the try block of each escaped candidate so far
    kind,           \* which cleaner runs: generic, faculty, phd, postdoc, rg
    entries,        \* entity cleaners: the records appended so far
    final           \* entity cleaners: the records of the output

cleanerVars ==
    <<real_tables, found, escaped_tables, visible_text, all_lines, cleaned, faults>>

entityVars == <<kind, entries, final>>

vars == <<doc, pc, idx, cleanerVars, entityVars>>

----------------------------------------------------------------------------
(* Bounds of the model *)

MaxCells == 11

MaxNodes == 2

MaxFaults == 1

----------------------------------------------------------------------------
(* Sequence helpers *)

SeqsUpTo(S, n) == UNION {[1..m -> S] : m \in 0..n}

RECURSIVE Flatten(_)
Flatten(ss) == IF ss = <<>> THEN <<>> ELSE Head(ss) \o Flatten(Tail(ss))

\* sep.join(parts) of Python, on token sequences
RECURSIVE Join(_, _)
Join(parts, sep) ==
    IF parts = <<>> THEN <<>>
    ELSE IF Len(parts) = 1 THEN Head(parts)
    ELSE Head(parts) \o <<sep>> \o Join(Tail(parts), sep)

Min(a, b) == IF a < b THEN a ELSE b

----------------------------------------------------------------------------
(* HTML entities *)

\* One level of entity decoding of a token: html.unescape, which is also what
\* html.parser applies to attribute values and to text.
DecTok(t) ==
    CASE t = "&lt;b&gt;" -> "<b>"
      [] t = "&amp;lt;b&amp;gt;" -> "&lt;b&gt;"
      [] t = "&amp;amp;lt;b&amp;amp;gt;" -> "&amp;lt;b&amp;gt;"
      [] OTHER -> t

\* One level of entity encoding of a token (html.escape): the inverse of
\* DecTok on every token that holds no raw markup.
EncTok(t) ==
    CASE t = "<b>" -> "&lt;b&gt;"
      [] t = "&lt;b&gt;" -> "&amp;lt;b&amp;gt;"
      [] t = "&amp;lt;b&amp;gt;" -> "&amp;amp;lt;b&amp;amp;gt;"
      [] OTHER -> t

\* A cell is a sequence of items [a, s, href]: a word s, or (a = TRUE) an
\* <a href=href> link around the word s.
DecItem(it) == [a |-> it.a, s |-> DecTok(it.s), href |-> DecTok(it.href)]

EncItem(it) == [a |-> it.a, s |-> EncTok(it.s), href |-> EncTok(it.href)]

DecRows(rows) ==
    [r \in DOMAIN rows |-> [c \in DOMAIN rows[r] |->
        [i \in DOMAIN rows[r][c] |-> DecItem(rows[r][c][i])]]]

EncRows(rows) ==
    [r \in DOMAIN rows |-> [c \in DOMAIN rows[r] |->
        [i \in DOMAIN rows[r][c] |-> EncItem(rows[r][c][i])]]]

\* A string that may hold the text of a table: [tbl, enc, rows].  enc is the
\* number of times the table's tags are entity-encoded: 0 is "<table>", 1 is
\* "&lt;table&gt;", 2 is "&amp;lt;table&amp;gt;".  tbl = FALSE: no table.
unescape(val) ==
    [tbl |-> val.tbl,
     enc |-> IF val.enc > 0 THEN val.enc - 1 ELSE 0,
     rows |-> DecRows(val.rows)]

EscapeVal(val) ==
    [tbl |-> val.tbl, enc |-> val.enc + 1, rows |-> EncRows(val.rows)]

----------------------------------------------------------------------------
(* clean_BS_MS.py: cells and tables *)

chunk_size == 5

ATTR_FIELDS ==
    <<"data-code", "data-html", "data-content", "data-src", "data-url", "aria-label">>

TEXT_TAGS == {"p", "span", "div", "section", "li", "h1", "h2", "h3", "h4", "h5", "h6"}

\* BeautifulSoup(html, "html.parser") on the items of a cell or of a tag: the
\* entities of text and of attribute values are decoded once, and raw markup
\* ("<b>") becomes an element that holds no text.
ParseItem(it) ==
    [a |-> it.a,
     s |-> IF it.s = "<b>" THEN "" ELSE DecTok(it.s),
     href |-> DecTok(it.href)]

ParseItems(items) == [i \in DOMAIN items |-> ParseItem(items[i])]

ParseRows(rows) ==
    [r \in DOMAIN rows |-> [c \in DOMAIN rows[r] |-> ParseItems(rows[r][c])]]

\* str.strip() of a rendered string: only a leading or trailing " | "
\* separator, " " and "\n" tokens carry outer whitespace.
RECURSIVE LStrip(_)
LStrip(s) ==
    IF s = <<>> THEN s
    ELSE IF Head(s) \in {" ", "\n"} THEN LStrip(Tail(s))
    ELSE IF Head(s) = " | " THEN <<"| ">> \o Tail(s)
    ELSE IF Head(s) = " |" THEN <<"|">> \o Tail(s)
    ELSE s

RECURSIVE RStrip(_)
RStrip(s) ==
    IF s = <<>> THEN s
    ELSE LET n == Len(s) IN
         IF s[n] \in {" ", "\n"} THEN RStrip(SubSeq(s, 1, n - 1))
         ELSE IF s[n] = " | " THEN SubSeq(s, 1, n - 1) \o <<" |">>
         ELSE IF s[n] = "| " THEN SubSeq(s, 1, n - 1) \o <<"|">>
         ELSE s

Strip(s) == LStrip(RStrip(s))

\* " ".join(tag.stripped_strings), whitespace-normalised: the non-empty strings
\* of the items, links included, in document order.
RECURSIVE Words(_)
Words(items) ==
    IF items = <<>> THEN <<>>
    ELSE (IF Head(items).s = "" THEN <<>> ELSE <<<<Head(items).s>>>>)
         \o Words(Tail(items))

\* f"{link_text} | {link_url}" for every <a> with a text or a target
RECURSIVE LinkParts(_)
LinkParts(items) ==
    IF items = <<>> THEN <<>>
    ELSE LET it == Head(items) IN
         (IF it.a /\ (it.s # "" \/ it.href # "")
          THEN << (IF it.s = "" THEN <<>> ELSE <<it.s>>) \o <<" | ">>
                  \o (IF it.href = "" THEN <<>> ELSE <<it.href>>) >>
          ELSE <<>>)
         \o LinkParts(Tail(items))

extract_clean_cell(cell) ==
    LET text == Join(Words(cell), " ")
        parts == (IF text # <<>> THEN <<text>> ELSE <<>>) \o LinkParts(cell)
    IN  Strip(Join(parts, " ; "))

\* The sub-rows of one row's cleaned cells: cleaned_cells[i:i+chunk_size] for
\* i in range(0, len, chunk_size), or the whole row when it is not too long.
\* Chunks with slices one cell too short: the last cell of every full chunk is lost
RECURSIVE ChunksShortSlice(_, _)
ChunksShortSlice(cells, i) ==
    IF i >= Len(cells) THEN <<>>
    ELSE LET subrow == SubSeq(cells, i + 1, Min(i + chunk_size - 1, Len(cells))) IN
         (IF subrow # <<>> THEN <<subrow>> ELSE <<>>)
         \o ChunksShortSlice(cells, i + chunk_size)

RECURSIVE Chunks(_, _)
Chunks(cells, i) ==
    IF i >= Len(cells) THEN <<>>
    ELSE LET subrow == SubSeq(cells, i + 1, Min(i + chunk_size, Len(cells))) IN
         (IF subrow # <<>> THEN <<subrow>> ELSE <<>>)
         \o Chunks(cells, i + chunk_size)

SubRows(cleaned_cells) ==
    IF Len(cleaned_cells) > chunk_size
    THEN Chunks(cleaned_cells, 0)
    ELSE <<cleaned_cells>>

\* The sub-rows emitted for one <tr>: none when the row has no cell.
RowSubRows(row) ==
    IF row = <<>> THEN <<>>
    ELSE SubRows([c \in DOMAIN row |-> extract_clean_cell(row[c])])

RECURSIVE TableSubRows(_)
TableSubRows(rows) ==
    IF rows = <<>> THEN <<>>
    ELSE RowSubRows(Head(rows)) \o TableSubRows(Tail(rows))

\* table_to_text of a parsed table: one line per sub-row, cells joined by " | ",
\* lines joined by "\n".
table_to_text(rows) ==
    LET subrows == TableSubRows(rows)
        lines == [i \in DOMAIN subrows |-> Join(subrows[i], " | ")]
    IN  Join(lines, "\n")

\* The tables BeautifulSoup finds in a string: the table when its tags are
\* markup (enc = 0), none when they are still entity-encoded text.
FindTables(val) ==
    IF val.tbl /\ val.enc = 0 THEN <<ParseRows(val.rows)>> ELSE <<>>

\* txt of every table of `tables`, the empty ones left out
RECURSIVE TableTexts(_)
TableTexts(tables) ==
    IF tables = <<>> THEN <<>>
    ELSE LET txt == table_to_text(Head(tables)) IN
         (IF txt # <<>> THEN <<txt>> ELSE <<>>) \o TableTexts(Tail(tables))

\* extract_real_tables: the text of every <table> of the document that has one
extract_real_tables(d) ==
    LET tables == SelectSeq(d, LAMBDA n : n.k = "table")
    IN  TableTexts([i \in DOMAIN tables |-> ParseRows(tables[i].rows)])

\* The condition of an escaped candidate: "<table" in val or "&lt;table" in val
HasTableMark(val) == val.tbl /\ val.enc \in {0, 1}

----------------------------------------------------------------------------
(* The documents of the generic cleaner.  A document is the sequence of its *)
(* nodes in document order, as written in the html source:                 *)
(*   [k = "table"]  an inline <table> with its rows,                       *)
(*   [k = "elem"]   a tag with attributes (name, value) and items,         *)
(*   [k = "text"]   a text node of its own, holding the string val.        *)

W(s) == [a |-> FALSE, s |-> s, href |-> ""]

L(s, h) == [a |-> TRUE, s |-> s, href |-> h]

NoVal == [tbl |-> FALSE, enc |-> 0, rows |-> <<>>]

TableVal(rows) == [tbl |-> TRUE, enc |-> 0, rows |-> rows]

TableNode(rows) ==
    [k |-> "table", tag |-> "table", rows |-> rows, attrs |-> <<>>,
     items |-> <<>>, val |-> NoVal]

ElemNode(tag, attrs, items) ==
    [k |-> "elem", tag |-> tag, rows |-> <<>>, attrs |-> attrs,
     items |-> items, val |-> NoVal]

TextNode(val) ==
    [k |-> "text", tag |-> "", rows |-> <<>>, attrs |-> <<>>,
     items |-> <<>>, val |-> val]

Attr(name, val) == [name |-> name, val |-> val]

\* A table of one row of k cells "c1" .. "ck"
RowTable(k) == << [c \in 1..k |-> <<W("c" \o ToString(c))>>] >>

MarkTable == << << <<W("&lt;b&gt;")>> >> >>

Mark2Table == << << <<W("x")>>, <<W("&amp;lt;b&amp;gt;")>> >> >>

LinkTable == << << <<L("A", "http://u")>>, <<W("B")>> >>, << <<W("C")>> >> >>

EmptyCellTable == << << <<>> >> >>

Tables ==
    {RowTable(k) : k \in 0..MaxCells}
        \cup {MarkTable, Mark2Table, LinkTable, EmptyCellTable}

\* The document holding the table inline, and the one holding its
\* entity-encoded form in the attribute `name` of a tag.
InlineDoc(rows) == <<TableNode(rows)>>

EscapedAttrDoc(name, rows) ==
    <<ElemNode("div", <<Attr(name, EscapeVal(TableVal(rows)))>>, <<>>)>>

NodePool ==
    { TableNode(RowTable(2)),
      TableNode(MarkTable),
      TableNode(RowTable(chunk_size + 1)),
      ElemNode("div", <<Attr("data-code", EscapeVal(TableVal(RowTable(2))))>>, <<>>),
      ElemNode("div", <<Attr("aria-label", EscapeVal(EscapeVal(TableVal(RowTable(2))))),
                        Attr("data-code", EscapeVal(TableVal(LinkTable)))>>,
               <<W("intro")>>),
      ElemNode("iframe", <<Attr("data-src", TableVal(RowTable(chunk_size + 1))),
                           Attr("title", EscapeVal(TableVal(RowTable(3))))>>, <<>>),
      TextNode(EscapeVal(TableVal(RowTable(2)))),
      TextNode(EscapeVal(EscapeVal(EscapeVal(TableVal(RowTable(3)))))),
      ElemNode("p", <<>>, <<W("hello"), L("site", "http://u")>>),
      ElemNode("h2", <<>>, <<W("Title")>>),
      ElemNode("h5", <<>>, <<>>),
      ElemNode("h6", <<>>, <<W("Sub")>>),
      ElemNode("section", <<Attr("data-html", NoVal)>>, <<L("", "http://v")>>) }

Docs ==
    {InlineDoc(t) : t \in Tables}
        \cup {EscapedAttrDoc(n, t) : n \in {ATTR_FIELDS[i] : i \in DOMAIN ATTR_FIELDS},
                                     t \in Tables}
        \cup (SeqsUpTo(NodePool, MaxNodes) \ {<<>>})

----------------------------------------------------------------------------
(* clean_BS_MS.py: extract_escaped_tables, extract_visible_text, main *)

\* tag.get(attr) for every tag of the document and every attr of ATTR_FIELDS
\* the tag has, in the order of the two loops.  The parser has decoded the
\* entities of the attribute's source text once.
TagAttrValues(node) ==
    LET of(name) == SelectSeq(node.attrs, LAMBDA at : at.name = name)
    IN  Flatten([i \in DOMAIN ATTR_FIELDS |->
            [j \in DOMAIN of(ATTR_FIELDS[i]) |-> unescape(of(ATTR_FIELDS[i])[j].val)]])

AttrCandidates(d) == Flatten([n \in DOMAIN d |-> TagAttrValues(d[n])])

\* soup.find_all(string=lambda s: "<table" in s or "&lt;table" in s): the text
\* nodes, entities decoded once by the parser, that hold a table mark.
StringCandidates(d) ==
    LET texts == SelectSeq(d, LAMBDA n : n.k = "text")
        vals == [i \in DOMAIN texts |-> unescape(texts[i].val)]
    IN  SelectSeq(vals, HasTableMark)

Faults == {"none", "decode", "parse"}

\* The try block of one candidate: html.unescape, BeautifulSoup, then
\* table_to_text of every table found.  An exception of the first two leaves
\* found as it was and is swallowed ("except Exception: pass").
TryCandidateUncaught(fnd, val, fault) ==
    IF fault # "none"
    THEN [found |-> fnd, raised |-> TRUE]
    ELSE [found |-> fnd \o TableTexts(FindTables(unescape(val))), raised |-> FALSE]

TryCandidate(fnd, val, fault) ==
    IF fault # "none"
    THEN [found |-> fnd, raised |-> FALSE]
    ELSE [found |-> fnd \o TableTexts(FindTables(unescape(val))), raised |-> FALSE]

\* The end of extract_escaped_tables without the test "f not in final_list"
NotDeduplicated(fnd, final_list) == final_list \o fnd

\* "Deduplicate while preserving order"
RECURSIVE Deduplicated(_, _)
Deduplicated(fnd, final_list) ==
    IF fnd = <<>> THEN final_list
    ELSE Deduplicated(Tail(fnd),
            IF \E i \in DOMAIN final_list : final_list[i] = Head(fnd)
            THEN final_list
            ELSE Append(final_list, Head(fnd)))

BREAK_TAGS == {"section", "h1", "h2", "h3", "h4"}

\* The lines extract_visible_text appends for one tag of TEXT_TAGS
TagLines(node) ==
    IF node.k = "elem" /\ node.tag \in TEXT_TAGS
    THEN LET items == ParseItems(node.items)
             txt == Join(Words(items), " ")
         IN  (IF txt # <<>> THEN <<txt>> ELSE <<>>)
             \o LinkParts(items)
             \o (IF node.tag \in BREAK_TAGS THEN << <<>> >> ELSE <<>>)
    ELSE <<>>

extract_visible_text(d) ==
    Join(Flatten([n \in DOMAIN d |-> TagLines(d[n])]), "\n")

\* all_lines of main: each table followed by "", real tables first, escaped
\* tables after, then the visible text.
TableBlocks(tables) == Flatten([i \in DOMAIN tables |-> <<tables[i], <<>>>>])

AssembleLinesEscapedFirst(real, escaped, visible) ==
    TableBlocks(escaped) \o TableBlocks(real) \o <<visible>>

AssembleLines(real, escaped, visible) ==
    TableBlocks(real) \o TableBlocks(escaped) \o <<visible>>

----------------------------------------------------------------------------
(* The generic cleaner as a state machine: extract_from_html, then main *)

Init ==
    /\ doc \in Docs
    /\ pc = "real_tables"
    /\ idx = 1
    /\ real_tables = <<>>
    /\ found = <<>>
    /\ escaped_tables = <<>>
    /\ visible_text = <<>>
    /\ all_lines = <<>>
    /\ cleaned = <<>>
    /\ faults = <<>>
    /\ kind = "generic"
    /\ entries = <<>>
    /\ final = <<>>

NumFaults == Cardinality({i \in DOMAIN faults : faults[i] \in {"decode", "parse"}})

\* extract_real_tables: one tag of soup.find_all("table")
ExtractRealTable ==
    /\ pc = "real_tables"
    /\ idx <= Len(doc)
    /\ LET node == doc[idx]
           txt == table_to_text(ParseRows(node.rows))
       IN  real_tables' = IF node.k = "table" /\ txt # <<>>
                          THEN Append(real_tables, txt)
                          ELSE real_tables
    /\ idx' = idx + 1
    /\ UNCHANGED <<doc, pc, found, escaped_tables, visible_text, all_lines,
                   cleaned, faults>>
    /\ UNCHANGED entityVars

RealTablesDone ==
    /\ pc = "real_tables"
    /\ idx > Len(doc)
    /\ pc' = "attributes"
    /\ idx' = 1
    /\ UNCHANGED <<doc, real_tables, found, escaped_tables, visible_text,
                   all_lines, cleaned, faults>>
    /\ UNCHANGED entityVars

\* The try block of one candidate, with any of its outcomes
Try(val) ==
    \E fault \in Faults :
        /\ fault # "none" => NumFaults < MaxFaults
        /\ LET r == TryCandidate(found, val, fault)
           IN  /\ found' = r.found
               /\ pc' = IF r.raised THEN "failed" ELSE pc
        /\ faults' = Append(faults, IF fault = "none" THEN "ok" ELSE fault)

\* "Inspect attributes": one attribute of ATTR_FIELDS that a tag has
InspectAttribute ==
    /\ pc = "attributes"
    /\ idx <= Len(AttrCandidates(doc))
    /\ LET val == AttrCandidates(doc)[idx]
       IN  IF HasTableMark(val)
           THEN Try(val)
           ELSE /\ faults' = Append(faults, "skip")
                /\ UNCHANGED <<found, pc>>
    /\ idx' = idx + 1
    /\ UNCHANGED <<doc, real_tables, escaped_tables, visible_text, all_lines, cleaned>>
    /\ UNCHANGED entityVars

AttributesDone ==
    /\ pc = "attributes"
    /\ idx > Len(AttrCandidates(doc))
    /\ pc' = "strings"
    /\ idx' = 1
    /\ UNCHANGED <<doc, real_tables, found, escaped_tables, visible_text,
                   all_lines, cleaned, faults>>
    /\ UNCHANGED entityVars

\* "Inspect raw text": one text node of candidates
InspectString ==
    /\ pc = "strings"
    /\ idx <= Len(StringCandidates(doc))
    /\ Try(StringCandidates(doc)[idx])
    /\ idx' = idx + 1
    /\ UNCHANGED <<doc, real_tables, escaped_tables, visible_text, all_lines, cleaned>>
    /\ UNCHANGED entityVars

\* The end of extract_escaped_tables: final_list
Deduplicate ==
    /\ pc = "strings"
    /\ idx > Len(StringCandidates(doc))
    /\ escaped_tables' = Deduplicated(found, <<>>)
    /\ pc' = "visible_text"
    /\ UNCHANGED <<doc, idx, real_tables, found, visible_text, all_lines,
                   cleaned, faults>>
    /\ UNCHANGED entityVars

ExtractVisibleText ==
    /\ pc = "visible_text"
    /\ visible_text' = extract_visible_text(doc)
    /\ pc' = "main"
    /\ UNCHANGED <<doc, idx, real_tables, found, escaped_tables, all_lines,
                   cleaned, faults>>
    /\ UNCHANGED entityVars

\* main, after extract_from_html has returned
Assemble ==
    /\ pc = "main"
    /\ all_lines' = AssembleLines(real_tables, escaped_tables, visible_text)
    /\ cleaned' = Strip(Join(all_lines', "\n"))
    /\ pc' = "done"
    /\ UNCHANGED <<doc, idx, real_tables, found, escaped_tables, visible_text, faults>>
    /\ UNCHANGED entityVars

Next ==
    \/ ExtractRealTable
    \/ RealTablesDone
    \/ InspectAttribute
    \/ AttributesDone
    \/ InspectString
    \/ Deduplicate
    \/ ExtractVisibleText
    \/ Assemble

Spec == Init /\ [][Next]_vars

----------------------------------------------------------------------------
(* Properties of the generic cleaner *)

\* s.split(sep) on token sequences
RECURSIVE SplitOn(_, _)
SplitOn(s, sep) ==
    IF \A i \in DOMAIN s : s[i] # sep THEN <<s>>
    ELSE LET i == CHOOSE j \in DOMAIN s :
                    s[j] = sep /\ \A m \in 1..(j - 1) : s[m] # sep
         IN  <<SubSeq(s, 1, i - 1)>> \o SplitOn(SubSeq(s, i + 1, Len(s)), sep)

CeilDiv(k, n) == (k + n - 1) \div n

\* The <tr> rows of the inline tables of the document, as parsed
DocRows == Flatten([n \in DOMAIN doc |->
              IF doc[n].k = "table" THEN ParseRows(doc[n].rows) ELSE <<>>])

\* C1: a row of k > 5 cells is emitted as ceil(k/5) sub-rows of at most 5 cells
\* each, whose cells, concatenated in emission order, are the row's k cleaned
\* cells in their order; and the text extract_real_tables returns for a table
\* of one such row of plain cells has ceil(k/5) lines of at most 5 cells each
\* that hold the k cells in order.
C1_RowSplit ==
    /\ \A r \in DOMAIN DocRows :
          LET row == DocRows[r]
              k == Len(row)
              sub == RowSubRows(row)
          IN  k > chunk_size =>
                /\ Len(sub) = CeilDiv(k, chunk_size)
                /\ \A i \in DOMAIN sub : Len(sub[i]) <= chunk_size /\ Len(sub[i]) >= 1
                /\ Flatten(sub) = [c \in 1..k |-> extract_clean_cell(row[c])]
    /\ \A k \in (chunk_size + 1)..(MaxCells + 1) :
          (doc = InlineDoc(RowTable(k)) /\ pc # "real_tables") =>
             /\ Len(real_tables) = 1
             /\ LET lines == SplitOn(real_tables[1], "\n")
                    cells == [i \in DOMAIN lines |-> SplitOn(lines[i], " | ")]
                IN  /\ Len(lines) = CeilDiv(k, chunk_size)
                    /\ \A i \in DOMAIN cells : Len(cells[i]) <= chunk_size
                    /\ Flatten(cells) = [c \in 1..k |-> <<"c" \o ToString(c)>>]

C1_Witness ==
    /\ pc = "done"
    /\ \E k \in (2 * chunk_size + 1)..MaxCells : doc = InlineDoc(RowTable(k))
    /\ Len(real_tables) = 1
    /\ Len(SplitOn(real_tables[1], "\n")) = 3

NoFault == \A i \in DOMAIN faults : faults[i] \notin {"decode", "parse"}

\* C5: for a document in which one scanned attribute carries the
\* entity-encoded form of a table, extract_escaped_tables returns what
\* extract_real_tables returns for the document holding that table inline.
C5_EscapedEqualsInline ==
    \A n \in {ATTR_FIELDS[i] : i \in DOMAIN ATTR_FIELDS} : \A t \in Tables :
        (pc = "done" /\ doc = EscapedAttrDoc(n, t) /\ NoFault)
            => escaped_tables = extract_real_tables(InlineDoc(t))

\* C6: in all_lines every real-table block precedes every escaped-table block,
\* which precede the visible text; the real tables are in document order and
\* the escaped tables in the order of their first discovery.
FirstIndex(seq, x) == CHOOSE i \in DOMAIN seq : seq[i] = x /\ \A j \in 1..(i - 1) : seq[j] # x

C6_OutputOrder ==
    pc = "done" =>
        LET n == Len(real_tables)
            m == Len(escaped_tables)
        IN  /\ Len(all_lines) = 2 * n + 2 * m + 1
            /\ \A i \in 1..n : all_lines[2 * i - 1] = real_tables[i]
            /\ \A j \in 1..m : all_lines[2 * n + 2 * j - 1] = escaped_tables[j]
            /\ all_lines[2 * n + 2 * m + 1] = visible_text
            /\ real_tables = extract_real_tables(doc)
            /\ \A j \in 1..m : \E i \in DOMAIN found : found[i] = escaped_tables[j]
            /\ \A i, j \in 1..m :
                  i < j => FirstIndex(found, escaped_tables[i])
                              < FirstIndex(found, escaped_tables[j])

C6_Witness ==
    /\ pc = "done"
    /\ Len(real_tables) >= 1
    /\ Len(escaped_tables) >= 2
    /\ visible_text # <<>>
    /\ real_tables[1] # escaped_tables[1]

\* The candidates of extract_escaped_tables in the order they are inspected
Candidates == AttrCandidates(doc) \o StringCandidates(doc)

RemoveAt(seq, j) == SubSeq(seq, 1, j - 1) \o SubSeq(seq, j + 1, Len(seq))

\* found after the candidates `cands` with the outcomes `log`
RECURSIVE FoundAfter(_, _, _)
FoundAfter(fnd, cands, log) ==
    IF cands = <<>> THEN fnd
    ELSE FoundAfter(
            IF Head(log) = "skip" THEN fnd
            ELSE TryCandidate(fnd, Head(cands),
                              IF Head(log) = "ok" THEN "none" ELSE Head(log)).found,
            Tail(cands), Tail(log))

\* C10: a candidate whose decoding or parsing fails does not make the call
\* fail, and the result is the one of the same document without that candidate.
C10_FailureIsLocal ==
    /\ pc # "failed"
    /\ pc = "done" =>
          \A j \in DOMAIN faults :
              faults[j] \in {"decode", "parse"} =>
                  escaped_tables =
                      Deduplicated(FoundAfter(<<>>, RemoveAt(Candidates, j),
                                              RemoveAt(faults, j)), <<>>)

C10_Witness ==
    /\ pc = "done"
    /\ \E i, j, k \in DOMAIN faults :
          /\ i < j /\ j < k
          /\ faults[i] = "ok" /\ faults[j] \in {"decode", "parse"} /\ faults[k] = "ok"
    /\ Len(escaped_tables) >= 2

----------------------------------------------------------------------------
(* Strings of the entity cleaners (clean_faculty.py, clean_phds.py,        *)
(* clean_pd.py, clean_rg.py): sequences of characters, with the str        *)
(* methods the cleaners call.                                              *)

IsSpace(c) == c \in {" ", "\n", "\t"}

\* s[i:].startswith(sub), i counted from 1
MatchAt(s, sub, i) ==
    /\ i >= 1
    /\ i + Len(sub) - 1 <= Len(s)
    /\ \A j \in DOMAIN sub : s[i + j - 1] = sub[j]

\* s.find(sub, from): the first index >= from where sub starts, 0 when none
FindFrom(s, sub, from) ==
    IF \E i \in from..Len(s) : MatchAt(s, sub, i)
    THEN CHOOSE i \in from..Len(s) :
            MatchAt(s, sub, i) /\ \A j \in from..(i - 1) : ~MatchAt(s, sub, j)
    ELSE 0

\* sub in s
Contains(s, sub) == FindFrom(s, sub, 1) # 0

StartsWith(s, prefix) == MatchAt(s, prefix, 1)

\* s.replace(old, new): every non-overlapping occurrence, left to right
RECURSIVE Replace(_, _, _)
Replace(s, old, new) ==
    LET i == FindFrom(s, old, 1) IN
    IF i = 0 THEN s
    ELSE SubSeq(s, 1, i - 1) \o new
         \o Replace(SubSeq(s, i + Len(old), Len(s)), old, new)

\* s.split(sep): always at least one part
RECURSIVE SplitStr(_, _)
SplitStr(s, sep) ==
    LET i == FindFrom(s, sep, 1) IN
    IF i = 0 THEN <<s>>
    ELSE <<SubSeq(s, 1, i - 1)>> \o SplitStr(SubSeq(s, i + Len(sep), Len(s)), sep)

\* s.split(sep, 1)
SplitOnce(s, sep) ==
    LET i == FindFrom(s, sep, 1) IN
    IF i = 0 THEN <<s>>
    ELSE <<SubSeq(s, 1, i - 1), SubSeq(s, i + Len(sep), Len(s))>>

\* s.strip()
RECURSIVE StripSpace(_)
StripSpace(s) ==
    IF s = <<>> THEN s
    ELSE IF IsSpace(Head(s)) THEN StripSpace(Tail(s))
    ELSE IF IsSpace(s[Len(s)]) THEN StripSpace(SubSeq(s, 1, Len(s) - 1))
    ELSE s

\* s.split(): the maximal runs of non-space characters
RECURSIVE SplitSpace(_)
SplitSpace(s) ==
    LET t == StripSpace(s) IN
    IF t = <<>> THEN <<>>
    ELSE IF \A i \in DOMAIN t : ~IsSpace(t[i]) THEN <<t>>
    ELSE LET i == CHOOSE j \in DOMAIN t :
                    IsSpace(t[j]) /\ \A m \in 1..(j - 1) : ~IsSpace(t[m])
         IN  <<SubSeq(t, 1, i - 1)>> \o SplitSpace(SubSeq(t, i + 1, Len(t)))

\* norm(text): " ".join(text.split()).strip()
norm(text) == Join(SplitSpace(text), " ")

LowerChar(c) ==
    CASE c = "A" -> "a" [] c = "B" -> "b" [] c = "C" -> "c" [] c = "D" -> "d"
      [] c = "E" -> "e" [] c = "F" -> "f" [] c = "G" -> "g" [] c = "H" -> "h"
      [] c = "I" -> "i" [] c = "J" -> "j" [] c = "K" -> "k" [] c = "L" -> "l"
      [] c = "M" -> "m" [] c = "N" -> "n" [] c = "O" -> "o" [] c = "P" -> "p"
      [] c = "Q" -> "q" [] c = "R" -> "r" [] c = "S" -> "s" [] c = "T" -> "t"
      [] c = "U" -> "u" [] c = "V" -> "v" [] c = "W" -> "w" [] c = "X" -> "x"
      [] c = "Y" -> "y" [] c = "Z" -> "z" [] OTHER -> c

\* s.lower()
Lower(s) == [i \in DOMAIN s |-> LowerChar(s[i])]

\* sep.join(parts) with a separator of several characters
RECURSIVE JoinStr(_, _)
JoinStr(parts, sep) ==
    IF parts = <<>> THEN <<>>
    ELSE IF Len(parts) = 1 THEN Head(parts)
    ELSE Head(parts) \o sep \o JoinStr(Tail(parts), sep)

----------------------------------------------------------------------------
(* clean_faculty.py: parse_faculty_block *)

\* A block is a tag with its child nodes in document order.  A node
\* [tag, txt, href] is a child tag holding the one text node txt (tag "text":
\* a text node of the block itself); href is the target of an <a>.
FNode(tag, txt, href) == [tag |-> tag, txt |-> txt, href |-> href]

FBlock(tag, cls, nodes) == [tag |-> tag, cls |-> cls, nodes |-> nodes]

\* block.get_text(" ", strip=True): the stripped, non-empty text nodes joined
\* by one space
BlockText(block) ==
    LET stripped == [i \in DOMAIN block.nodes |-> StripSpace(block.nodes[i].txt)]
    IN  Join(SelectSeq(stripped, LAMBDA t : t # <<>>), " ")

HEADING_TAGS == <<"h6", "h5", "h4", "h3">>

HONORIFICS == <<<<"p", "r", "o", "f">>, <<"d", "r">>, <<"m", "r">>, <<"m", "s">>>>

EMAIL_DOMAIN == <<"@", "i", "i", "s", "e", "r", "b", ".", "a", "c", ".", "i", "n">>

EMAIL_DOMAIN_AT == <<"[", "a", "t", "]", "i", "i", "s", "e", "r", "b", ".", "a", "c", ".", "i", "n">>

ROLES == <<<<"A", "s", "s", "i", "s", "t", "a", "n", "t", " ", "P", "r", "o", "f", "e", "s", "s", "o", "r">>, <<"A", "s", "s", "o", "c", "i", "a", "t", "e", " ", "P", "r", "o", "f", "e", "s", "s", "o", "r">>, <<"P", "r", "o", "f", "e", "s", "s", "o", "r">>, <<"D", "e", "p", "t", ".", " ", "H", "e", "a", "d">>>>

\* block.find(tag): the first node of that tag, as a sequence of 0 or 1 node
FindTag(nodes, tag) ==
    LET hits == SelectSeq(nodes, LAMBDA n : n.tag = tag)
    IN  IF hits = <<>> THEN <<>> ELSE <<Head(hits)>>

\* "for tag in [h6, h5, h4, h3]: t = block.find(tag); if t: name = norm(...); break"
RECURSIVE HeadingName(_, _)
HeadingName(nodes, i) ==
    IF i > Len(HEADING_TAGS) THEN <<>>
    ELSE LET t == FindTag(nodes, HEADING_TAGS[i]) IN
         IF t # <<>> THEN norm(t[1].txt) ELSE HeadingName(nodes, i + 1)

IsHonorific(t) == \E x \in DOMAIN HONORIFICS : Contains(Lower(t), HONORIFICS[x])

\* "for c in block.find_all([span, a]): ... if len(t.split()) <= 6: name = t; break"
HonorificName(nodes) ==
    LET cs == SelectSeq(nodes, LAMBDA n : n.tag \in {"span", "a"})
        ts == [i \in DOMAIN cs |-> StripSpace(cs[i].txt)]
        ok == SelectSeq(ts, LAMBDA t : IsHonorific(t) /\ Len(SplitSpace(t)) <= 6)
    IN  IF ok = <<>> THEN <<>> ELSE Head(ok)

FacultyName(block) ==
    LET name == HeadingName(block.nodes, 1)
    IN  IF name # <<>> THEN name ELSE HonorificName(block.nodes)

\* "for a in block.find_all(a): if href.startswith(http): homepage = href"
FacultyHomepage(block) ==
    LET hs == SelectSeq(block.nodes,
                        LAMBDA n : n.tag = "a" /\ StartsWith(n.href, <<"h", "t", "t", "p">>))
    IN  IF hs = <<>> THEN <<>> ELSE hs[Len(hs)].href

\* The chain of replace calls on a token that holds an email
CleanEmail(p) ==
    Replace(Replace(Replace(Replace(Replace(p,
        <<"[", "a", "t", "]">>, <<"@">>), <<"[", "A", "t", "]">>, <<"@">>), <<"[", "A", "T", "]">>, <<"@">>), <<"(", "a", "t", ")">>, <<"@">>), <<"a", "t", "]">>, <<"@">>)

\* The condition under which a token is taken as an email
IsEmailToken(p) == Contains(p, EMAIL_DOMAIN) \/ Contains(p, EMAIL_DOMAIN_AT)

FacultyEmails(text) ==
    LET parts == SplitSpace(Replace(text, <<":">>, <<" ">>))
        hits == SelectSeq(parts, IsEmailToken)
    IN  [i \in DOMAIN hits |-> CleanEmail(hits[i])]

IsDigit(c) == c \in {"0", "1", "2", "3", "4", "5", "6", "7", "8", "9"}

\* [\s-]? at position j: the position after it
SkipSep(s, j) == IF j <= Len(s) /\ (IsSpace(s[j]) \/ s[j] = "-") THEN j + 1 ELSE j

DigitsAt(s, j, n) == j + n - 1 <= Len(s) /\ \A m \in 0..(n - 1) : IsDigit(s[j + m])

\* PHONE_REGEX matched at position i: the position of its last character, or 0
PhoneEnd(s, i) ==
    IF ~MatchAt(s, <<"+", "9", "1">>, i) THEN 0
    ELSE LET a == SkipSep(s, i + 3) IN
         IF ~DigitsAt(s, a, 3) THEN 0
         ELSE LET b == SkipSep(s, a + 3) IN
              IF ~DigitsAt(s, b, 3) THEN 0
              ELSE LET c == SkipSep(s, b + 3) IN
                   IF ~DigitsAt(s, c, 4) THEN 0 ELSE c + 3

\* PHONE_REGEX.search(text).group(1), "" when there is no match
FacultyPhone(text) ==
    IF \E i \in DOMAIN text : PhoneEnd(text, i) # 0
    THEN LET i == CHOOSE j \in DOMAIN text :
                    PhoneEnd(text, j) # 0 /\ \A m \in 1..(j - 1) : PhoneEnd(text, m) = 0
         IN  SubSeq(text, i, PhoneEnd(text, i))
    ELSE <<>>

\* The first role label of ROLES that the text holds, case ignored
FacultyRole(text) ==
    LET hits == SelectSeq(ROLES, LAMBDA rk : Contains(Lower(text), Lower(rk)))
    IN  IF hits = <<>> THEN <<>> ELSE Head(hits)

\* re.split(r"[;,]", r)
RECURSIVE SplitListMarks(_)
SplitListMarks(r) ==
    IF \A i \in DOMAIN r : r[i] \notin {";", ","} THEN <<r>>
    ELSE LET i == CHOOSE j \in DOMAIN r :
                    r[j] \in {";", ","} /\ \A m \in 1..(j - 1) : r[m] \notin {";", ","}
         IN  <<SubSeq(r, 1, i - 1)>> \o SplitListMarks(SubSeq(r, i + 1, Len(r)))

FacultyResearch(text) ==
    IF Contains(text, <<"R", "e", "s", "e", "a", "r", "c", "h">>)
    THEN LET r == Replace(SplitOnce(text, <<"R", "e", "s", "e", "a", "r", "c", "h">>)[2], <<":">>, <<>>)
             xs == SplitListMarks(r)
             fields == [i \in DOMAIN xs |-> norm(xs[i])]
         IN  SelectSeq(fields, LAMBDA x : x # <<>>)
    ELSE <<>>

\* The record parse_faculty_block builds before its last test
FacultyEntry(block) ==
    LET text == BlockText(block) IN
    [name |-> FacultyName(block),
     role |-> FacultyRole(text),
     emails |-> FacultyEmails(text),
     phone |-> FacultyPhone(text),
     research |-> FacultyResearch(text),
     homepage |-> FacultyHomepage(block)]

\* parse_faculty_block without its last test: a record for every block with text
parse_faculty_block_unguarded(block) ==
    IF BlockText(block) = <<>> THEN <<>> ELSE <<FacultyEntry(block)>>

\* parse_faculty_block: <<>> for None, <<entry>> for a record
parse_faculty_block(block) ==
    LET entry == FacultyEntry(block) IN
    IF BlockText(block) = <<>> THEN <<>>
    ELSE IF entry.name = <<>> /\ entry.emails = <<>> THEN <<>>
    ELSE <<entry>>

\* Deduplicate of extract_faculty_entries, dropping nothing
KeepAll(faculty, kept, seen) == kept \o faculty

\* "Deduplicate": the first record of every non-empty name, in order
RECURSIVE DeduplicateByName(_, _, _)
DeduplicateByName(faculty, kept, seen) ==
    IF faculty = <<>> THEN kept
    ELSE LET f == Head(faculty) IN
         IF f.name # <<>> /\ f.name \notin seen
         THEN DeduplicateByName(Tail(faculty), Append(kept, f), seen \cup {f.name})
         ELSE DeduplicateByName(Tail(faculty), kept, seen)

----------------------------------------------------------------------------
(* clean_phds.py, clean_pd.py, clean_rg.py: the block parsers *)

\* A child node of a student block, a postdoc article or a group half:
\*   tag   "a", "img", "p", "h3", "h6", "ul", "text" (a text node of the block)
\*   txt   its text; for "a" the text of the link
\*   cls   its class
\*   a     for "p": it holds an <a> after its text, with text atxt and target href
\*   href  the target of the <a>;  src: the source of an <img>
\*   lis   for "ul": the texts of its <li>
ENode(tag, txt, cls, a, atxt, href, src, lis) ==
    [tag |-> tag, txt |-> txt, cls |-> cls, a |-> a, atxt |-> atxt,
     href |-> href, src |-> src, lis |-> lis]

\* node.get_text(" ", strip=True)
NodeText(n) ==
    LET strs == <<StripSpace(n.txt)>> \o (IF n.a THEN <<StripSpace(n.atxt)>> ELSE <<>>)
    IN  Join(SelectSeq(strs, LAMBDA t : t # <<>>), " ")

HasAnchor(n) == n.tag = "a" \/ (n.tag = "p" /\ n.a)

AnchorText(n) == IF n.tag = "a" THEN n.txt ELSE n.atxt

\* block.find(a), block.find(img), ...: sequences of 0 or 1 node
FirstAnchor(nodes) ==
    LET hits == SelectSeq(nodes, HasAnchor) IN IF hits = <<>> THEN <<>> ELSE <<Head(hits)>>

FirstOfTag(nodes, tag) ==
    LET hits == SelectSeq(nodes, LAMBDA n : n.tag = tag)
    IN  IF hits = <<>> THEN <<>> ELSE <<Head(hits)>>

EmptyEntry ==
    [name |-> <<>>, year_of_joining |-> <<>>, supervisor |-> <<>>, email |-> <<>>,
     homepage |-> <<>>, image_url |-> <<>>]

\* "1. NAME + HOMEPAGE": the text of the first link of the block
StudentName(block) ==
    LET name_link == FirstAnchor(block.nodes)
    IN  IF name_link = <<>> THEN <<>> ELSE norm(StripSpace(AnchorText(name_link[1])))

StudentHomepage(block) ==
    LET name_link == FirstAnchor(block.nodes)
    IN  IF name_link # <<>> /\ StartsWith(name_link[1].href, <<"h", "t", "t", "p">>)
        THEN name_link[1].href ELSE <<>>

ImageUrl(nodes) ==
    LET img == FirstOfTag(nodes, "img")
    IN  IF img # <<>> THEN img[1].src ELSE <<>>

\* The body of "for p in block.find_all(p)" for one <p>
StudentParagraph(entry, p) ==
    LET txt == norm(NodeText(p))
        parts == SplitStr(txt, <<":">>)
        e1 == IF Contains(txt, <<"Y", "e", "a", "r", " ", "o", "f", " ", "J", "o", "i", "n", "i", "n", "g">>) /\ Len(parts) > 1
              THEN [entry EXCEPT !.year_of_joining = norm(parts[2])]
              ELSE entry
        e2 == IF Contains(txt, <<"S", "u", "p", "e", "r", "v", "i", "s", "o", "r">>)
              THEN [e1 EXCEPT !.supervisor =
                        norm(StripSpace(Replace(Replace(txt, <<"S", "u", "p", "e", "r", "v", "i", "s", "o", "r">>, <<>>), <<":">>, <<>>)))]
              ELSE e1
        href == StripSpace(p.href)
        inner == Replace(StripSpace(p.atxt), <<"[", "a", "t", "]">>, <<"@">>)
    IN  IF Contains(txt, <<"E", "m", "a", "i", "l">>) /\ p.a
        THEN IF StartsWith(href, <<"m", "a", "i", "l", "t", "o", ":">>)
             THEN [e2 EXCEPT !.email = Replace(Replace(href, <<"m", "a", "i", "l", "t", "o", ":">>, <<>>), <<"[", "a", "t", "]">>, <<"@">>)]
             ELSE IF Contains(inner, <<"@">>) THEN [e2 EXCEPT !.email = inner] ELSE e2
        ELSE e2

RECURSIVE StudentParagraphs(_, _)
StudentParagraphs(entry, ps) ==
    IF ps = <<>> THEN entry
    ELSE StudentParagraphs(StudentParagraph(entry, Head(ps)), Tail(ps))

StudentEntry(block) ==
    StudentParagraphs(
        [EmptyEntry EXCEPT !.name = StudentName(block),
                           !.homepage = StudentHomepage(block),
                           !.image_url = ImageUrl(block.nodes)],
        SelectSeq(block.nodes, LAMBDA n : n.tag = "p"))

\* parse_student_block: <<>> for None, <<entry>> for a record
parse_student_block(block) ==
    LET entry == StudentEntry(block)
    IN  IF entry.name = <<>> THEN <<>> ELSE <<entry>>

\* article.find("h6", class_="heading")
PostdocName(article) ==
    LET hits == SelectSeq(article.nodes, LAMBDA n : n.tag = "h6" /\ n.cls = "heading")
    IN  IF hits = <<>> THEN <<>> ELSE norm(NodeText(Head(hits)))

\* The "DETAILS inside <p>" of parse_postdoc_entry on the text of the first
\* <p>: [raised, year_of_joining, supervisor, email].  raised: an index of a
\* split result is out of range (IndexError).
PostdocDetails(text) ==
    LET yparts == SplitStr(text, <<"Y", "e", "a", "r", " ", "o", "f", " ", "J", "o", "i", "n", "i", "n", "g", ":">>)
        sparts == SplitStr(text, <<"S", "u", "p", "e", "r", "v", "i", "s", "o", "r", " ", "N", "a", "m", "e", ":">>)
        eparts == SplitStr(text, <<"E", "m", "a", "i", "l", ":">>)
        hasY == Contains(text, <<"Y", "e", "a", "r", " ", "o", "f", " ", "J", "o", "i", "n", "i", "n", "g">>)
        hasS == Contains(text, <<"S", "u", "p", "e", "r", "v", "i", "s", "o", "r", " ", "N", "a", "m", "e">>)
        hasE == Contains(text, <<"E", "m", "a", "i", "l">>)
        raised ==
            \/ hasY /\ Len(yparts) < 2
            \/ hasS /\ Len(sparts) < 2
            \/ hasE /\ (Len(eparts) < 2 \/ SplitSpace(eparts[2]) = <<>>)
    IN  IF raised
        THEN [raised |-> TRUE, year_of_joining |-> <<>>, supervisor |-> <<>>,
              email |-> <<>>]
        ELSE [raised |-> FALSE,
              year_of_joining |->
                  IF hasY THEN norm(SplitStr(yparts[2], <<"S", "u", "p", "e", "r", "v", "i", "s", "o", "r">>)[1]) ELSE <<>>,
              supervisor |->
                  IF hasS THEN norm(SplitStr(sparts[2], <<"E", "m", "a", "i", "l">>)[1]) ELSE <<>>,
              email |->
                  IF hasE
                  THEN Replace(Replace(SplitSpace(eparts[2])[1], <<"[", "A", "t", "]">>, <<"@">>),
                               <<"[", "a", "t", "]">>, <<"@">>)
                  ELSE <<>>]

\* parse_postdoc_entry: [raised, entry], entry <<>> for None
parse_postdoc_entry(article) ==
    LET p == FirstOfTag(article.nodes, "p")
        d == IF p = <<>>
             THEN [raised |-> FALSE, year_of_joining |-> <<>>, supervisor |-> <<>>,
                   email |-> <<>>]
             ELSE PostdocDetails(NodeText(p[1]))
        entry == [name |-> PostdocName(article),
                  year_of_joining |-> d.year_of_joining,
                  supervisor |-> d.supervisor,
                  email |-> d.email,
                  homepage |-> IF p # <<>> /\ p[1].a THEN p[1].href ELSE <<>>,
                  image_url |-> ImageUrl(article.nodes)]
    IN  IF d.raised THEN [raised |-> TRUE, entry |-> <<>>]
        ELSE IF entry.name = <<>> THEN [raised |-> FALSE, entry |-> <<>>]
        ELSE [raised |-> FALSE, entry |-> <<entry>>]

\* h.find(img) with a source: "img and img.get(src)"
HasImageSrc(h) ==
    LET img == FirstOfTag(h.nodes, "img") IN img # <<>> /\ img[1].src # <<>>

HasImage(h) == FirstOfTag(h.nodes, "img") # <<>>

\* "Identify image block & text block": the last half with an image that has
\* a source, and the last half without one; 0 for None
LastIndex(indices) ==
    IF indices = {} THEN 0 ELSE CHOOSE i \in indices : \A j \in indices : j <= i

TextBlockIndex(halves) == LastIndex({i \in DOMAIN halves : ~HasImageSrc(halves[i])})

\* with the "Fallback": the last half that includes an <img>
ImageBlockIndex(halves) ==
    IF \E i \in DOMAIN halves : HasImageSrc(halves[i])
    THEN LastIndex({i \in DOMAIN halves : HasImageSrc(halves[i])})
    ELSE LastIndex({i \in DOMAIN halves : HasImage(halves[i])})

\* extract_description: the direct <p> children first, then the text nodes
extract_description(text_block) ==
    LET ps == SelectSeq(text_block.nodes, LAMBDA n : n.tag = "p")
        ptxt == SelectSeq([i \in DOMAIN ps |-> NodeText(ps[i])], LAMBDA t : t # <<>>)
        raw == SelectSeq(text_block.nodes, LAMBDA n : n.tag = "text")
        rtxt == SelectSeq([i \in DOMAIN raw |-> norm(raw[i].txt)], LAMBDA t : t # <<>>)
    IN  norm(Join(ptxt \o rtxt, " "))

GroupTitle(text_block) ==
    LET h3 == FirstOfTag(text_block.nodes, "h3")
    IN  IF h3 = <<>> THEN <<>> ELSE norm(NodeText(h3[1]))

GroupTopics(text_block) ==
    LET ul == FirstOfTag(text_block.nodes, "ul")
    IN  IF ul = <<>> THEN <<>>
        ELSE SelectSeq([i \in DOMAIN ul[1].lis |-> norm(StripSpace(ul[1].lis[i]))],
                       LAMBDA t : t # <<>>)

GroupHomepage(text_block) ==
    LET link == FirstAnchor(text_block.nodes)
    IN  IF link = <<>> THEN <<>> ELSE link[1].href

\* parse_research_container: <<>> for None, <<entry>> for a record
parse_research_container(container) ==
    LET halves == container.halves
        ib == ImageBlockIndex(halves)
        tb == TextBlockIndex(halves)
    IN  IF halves = <<>> \/ tb = 0 THEN <<>>
        ELSE IF GroupTitle(halves[tb]) = <<>> THEN <<>>
        ELSE << [title |-> GroupTitle(halves[tb]),
                 description |-> extract_description(halves[tb]),
                 topics |-> GroupTopics(halves[tb]),
                 homepage |-> GroupHomepage(halves[tb]),
                 image_url |-> IF ib # 0 THEN ImageUrl(halves[ib].nodes) ELSE <<>>] >>

----------------------------------------------------------------------------
(* The documents of the entity cleaners *)

MaxBlockNodes == 2

MaxBlocks == 3

MaxHalves == 2

FNodePool ==
    { FNode("h6", <<"D", "r", ".", " ", "A", " ", " ", "B">>, <<>>),
      FNode("h3", <<"D", "r", ".", " ", "A", " ", "B">>, <<>>),
      FNode("h5", <<>>, <<>>),
      FNode("span", <<"P", "r", "o", "f", ".", " ", "C">>, <<>>),
      FNode("span", <<"w", "e", " ", "t", "h", "a", "n", "k", " ", "d", "r", " ", "x", " ", "f", "o", "r", " ", "a", "l", "l", " ", "t", "h", "e", " ", "h", "e", "l", "p">>, <<>>),
      FNode("a", <<"h", "o", "m", "e">>, <<"h", "t", "t", "p", ":", "/", "/", "h", ".", "i", "n">>),
      FNode("a", <<"M", "r", " ", "D">>, <<"/", "r", "e", "l">>),
      FNode("a", <<"c", "v">>, <<"h", "t", "t", "p", "s", ":", "/", "/", "c", "v", ".", "i", "n">>),
      FNode("p", <<"E", "m", "a", "i", "l", ":", " ", "x", "[", "a", "t", "]", "i", "i", "s", "e", "r", "b", ".", "a", "c", ".", "i", "n">>, <<>>),
      FNode("p", <<"x", "[", "A", "t", "]", "i", "i", "s", "e", "r", "b", ".", "a", "c", ".", "i", "n">>, <<>>),
      FNode("p", <<"x", "(", "a", "t", ")", "i", "i", "s", "e", "r", "b", ".", "a", "c", ".", "i", "n">>, <<>>),
      FNode("p", <<"E", "m", "a", "i", "l", ":", "y", "@", "i", "i", "s", "e", "r", "b", ".", "a", "c", ".", "i", "n", " ", "+", "9", "1", "-", "7", "5", "5", " ", "2", "6", "9", "1", "2", "3", "4">>, <<>>),
      FNode("text", <<"A", "s", "s", "o", "c", "i", "a", "t", "e", " ", "P", "r", "o", "f", "e", "s", "s", "o", "r", " ", "R", "e", "s", "e", "a", "r", "c", "h", ":", " ", "A", "l", "g", "e", "b", "r", "a", ",", " ", "L", "o", "g", "i", "c">>, <<>>),
      FNode("text", <<" ">>, <<>>) }

\* Documents of one <article> with any children of the pool
FacultyBlocks == {FBlock("article", "", ns) : ns \in SeqsUpTo(FNodePool, MaxBlockNodes)}

FBlockPool ==
    { FBlock("article", "", <<FNode("h6", <<"D", "r", ".", " ", "A", " ", " ", "B">>, <<>>),
                              FNode("p", <<"E", "m", "a", "i", "l", ":", " ", "x", "[", "a", "t", "]", "i", "i", "s", "e", "r", "b", ".", "a", "c", ".", "i", "n">>, <<>>)>>),
      FBlock("article", "", <<FNode("h3", <<"D", "r", ".", " ", "A", " ", "B">>, <<>>),
                              FNode("a", <<"h", "o", "m", "e">>, <<"h", "t", "t", "p", ":", "/", "/", "h", ".", "i", "n">>)>>),
      FBlock("article", "", <<FNode("span", <<"P", "r", "o", "f", ".", " ", "C">>, <<>>),
                              FNode("a", <<"c", "v">>, <<"h", "t", "t", "p", "s", ":", "/", "/", "c", "v", ".", "i", "n">>)>>),
      FBlock("div", "tyJCtd", <<FNode("span", <<"P", "r", "o", "f", ".", " ", "C">>, <<>>),
                                FNode("p", <<"E", "m", "a", "i", "l", ":", "y", "@", "i", "i", "s", "e", "r", "b", ".", "a", "c", ".", "i", "n", " ", "+", "9", "1", "-", "7", "5", "5", " ", "2", "6", "9", "1", "2", "3", "4">>, <<>>)>>),
      FBlock("div", "tyJCtd", <<FNode("h6", <<"D", "r", ".", " ", "A", " ", "B">>, <<>>),
                                FNode("text", <<"A", "s", "s", "o", "c", "i", "a", "t", "e", " ", "P", "r", "o", "f", "e", "s", "s", "o", "r", " ", "R", "e", "s", "e", "a", "r", "c", "h", ":", " ", "A", "l", "g", "e", "b", "r", "a", ",", " ", "L", "o", "g", "i", "c">>, <<>>)>>),
      FBlock("article", "", <<FNode("h3", <<"D", "r", ".", " ", "A", " ", "B">>, <<>>),
                              FNode("a", <<"h", "o", "m", "e">>, <<"h", "t", "t", "p", ":", "/", "/", "h", ".", "i", "n">>),
                              FNode("a", <<"c", "v">>, <<"h", "t", "t", "p", "s", ":", "/", "/", "c", "v", ".", "i", "n">>)>>),
      FBlock("div", "", <<FNode("p", <<"E", "m", "a", "i", "l", ":", " ", "x", "[", "a", "t", "]", "i", "i", "s", "e", "r", "b", ".", "a", "c", ".", "i", "n">>, <<>>)>>),
      FBlock("div", "", <<FNode("text", <<"E", "m", "a", "i", "l", ":", " ", "z", "@", "i", "i", "s", "e", "r", "b", ".", "a", "c", ".", "i", "n">>, <<>>)>>) }

FacultyDocs ==
    {<<b>> : b \in FacultyBlocks} \cup (SeqsUpTo(FBlockPool, MaxBlocks) \ {<<>>})

A(txt, href) == ENode("a", txt, "", FALSE, <<>>, href, <<>>, <<>>)

Img(src) == ENode("img", <<>>, "", FALSE, <<>>, <<>>, src, <<>>)

Para(txt) == ENode("p", txt, "", FALSE, <<>>, <<>>, <<>>, <<>>)

PLink(txt, atxt, href) == ENode("p", txt, "", TRUE, atxt, href, <<>>, <<>>)

H(tag, cls, txt) == ENode(tag, txt, cls, FALSE, <<>>, <<>>, <<>>, <<>>)

Text(txt) == ENode("text", txt, "", FALSE, <<>>, <<>>, <<>>, <<>>)

Ul(lis) == ENode("ul", <<>>, "", FALSE, <<>>, <<>>, <<>>, lis)

EBlock(tag, cls, nodes) == [tag |-> tag, cls |-> cls, nodes |-> nodes]

StudentBlockPool ==
    { EBlock("div", "tyJCtd", <<A(<<"S", " ", "O", "n", "e">>, <<"h", "t", "t", "p", ":", "/", "/", "s", "1", ".", "i", "n">>), Img(<<"s", "1", ".", "p", "n", "g">>),
                                Para(<<"Y", "e", "a", "r", " ", "o", "f", " ", "J", "o", "i", "n", "i", "n", "g", ":", " ", "2", "0", "2", "1">>), Para(<<"S", "u", "p", "e", "r", "v", "i", "s", "o", "r", ":", " ", "D", "r", ".", " ", "K">>)>>),
      EBlock("div", "tyJCtd", <<A(<<"S", " ", " ", "O", "n", "e">>, <<>>), Para(<<"Y", "e", "a", "r", " ", "o", "f", " ", "J", "o", "i", "n", "i", "n", "g", ":", " ", "2", "0", "2", "2">>),
                                PLink(<<"E", "m", "a", "i", "l", ":">>, <<"s", "1", "[", "a", "t", "]", "i", "i", "s", "e", "r", "b", ".", "a", "c", ".", "i", "n">>, <<>>)>>),
      EBlock("div", "tyJCtd", <<A(<<"S", " ", "T", "w", "o">>, <<"/", "s", "2">>),
                                PLink(<<"E", "m", "a", "i", "l", ":">>, <<"m", "a", "i", "l">>, <<"m", "a", "i", "l", "t", "o", ":", "s", "2", "[", "a", "t", "]", "i", "i", "s", "e", "r", "b", ".", "a", "c", ".", "i", "n">>)>>),
      EBlock("div", "tyJCtd", <<Img(<<"x", ".", "p", "n", "g">>), Para(<<"Y", "e", "a", "r", " ", "o", "f", " ", "J", "o", "i", "n", "i", "n", "g", ":", " ", "2", "0", "2", "0">>)>>),
      EBlock("div", "tyJCtd", <<PLink(<<"E", "m", "a", "i", "l", ":">>, <<"t", "[", "a", "t", "]", "i", "i", "s", "e", "r", "b", ".", "a", "c", ".", "i", "n">>, <<>>)>>),
      EBlock("div", "tyJCtd", <<A(<<" ">>, <<"h", "t", "t", "p", ":", "/", "/", "e", ".", "i", "n">>)>>),
      EBlock("div", "tyJCtd", <<A(<<"S", " ", "F", "o", "u", "r">>, <<"h", "t", "t", "p", ":", "/", "/", "s", "4", ".", "i", "n">>),
                                Para(<<"Y", "e", "a", "r", " ", "o", "f", " ", "J", "o", "i", "n", "i", "n", "g", ":", " ", "2", "0", "2", "1", " ", "S", "u", "p", "e", "r", "v", "i", "s", "o", "r", ":", " ", "D", "r", ".", " ", "K">>)>>),
      EBlock("div", "tyJCtd", <<A(<<"S", " ", "F", "i", "v", "e">>, <<"/", "s", "5">>),
                                PLink(<<"E", "m", "a", "i", "l", ":">>, <<"s", "5", "[", "a", "t", "]", "i", "i", "s", "e", "r", "b", ".", "a", "c", ".", "i", "n">>, <<"h", "t", "t", "p", ":", "/", "/", "m", "a", "i", "l", ".", "i", "n">>)>>),
      EBlock("div", "other", <<A(<<"S", " ", "T", "h", "r", "e", "e">>, <<"h", "t", "t", "p", ":", "/", "/", "s", "3", ".", "i", "n">>)>>) }

StudentDocs == SeqsUpTo(StudentBlockPool, MaxBlocks) \ {<<>>}

PostdocBlockPool ==
    { EBlock("article", "one_third",
             <<Img(<<"p", "1", ".", "p", "n", "g">>), H("h6", "heading", <<"P", " ", "O", "n", "e">>),
               PLink(<<"Y", "e", "a", "r", " ", "o", "f", " ", "J", "o", "i", "n", "i", "n", "g", ":", " ", "2", "0", "2", "0", " ", "S", "u", "p", "e", "r", "v", "i", "s", "o", "r", " ", "N", "a", "m", "e", ":", " ", "D", "r", ".", " ", "K", " ", "E", "m", "a", "i", "l", ":", " ", "p", "1", "[", "A", "t", "]", "i", "i", "s", "e", "r", "b", ".", "a", "c", ".", "i", "n">>,
                     <<"W", "e", "b", "l", "i", "n", "k">>, <<"h", "t", "t", "p", ":", "/", "/", "p", "1", ".", "i", "n">>)>>),
      EBlock("article", "one_third",
             <<H("h6", "heading", <<"P", " ", "O", "n", "e">>), Para(<<"Y", "e", "a", "r", " ", "o", "f", " ", "J", "o", "i", "n", "i", "n", "g", ":", " ", "2", "0", "1", "9">>)>>),
      EBlock("article", "one_third",
             <<H("h6", "", <<"P", " ", "Z", "e", "r", "o">>), Para(<<"S", "u", "p", "e", "r", "v", "i", "s", "o", "r", " ", "N", "a", "m", "e", ":", " ", "D", "r", ".", " ", "L">>)>>),
      EBlock("article", "one_third",
             <<H("h6", "heading", <<"P", " ", "T", "w", "o">>), Para(<<"Y", "e", "a", "r", " ", "o", "f", " ", "J", "o", "i", "n", "i", "n", "g", " ", "2", "0", "2", "0">>)>>),
      EBlock("article", "one_third",
             <<H("h6", "heading", <<"P", " ", "T", "h", "r", "e", "e">>), Para(<<"E", "m", "a", "i", "l", ":">>)>>),
      EBlock("article", "one_third", <<H("h6", "heading", <<"P", " ", "F", "o", "u", "r">>)>>),
      EBlock("article", "one_third",
             <<H("h6", "heading", <<"P", " ", "S", "i", "x">>),
               Para(<<"Y", "e", "a", "r", " ", "o", "f", " ", "J", "o", "i", "n", "i", "n", "g", ":", " ", "2", "0", "2", "0", " ", "E", "m", "a", "i", "l", ":", " ", "p", "6", "[", "a", "t", "]", "i", "i", "s", "e", "r", "b", ".", "a", "c", ".", "i", "n">>)>>),
      EBlock("article", "one_half", <<H("h6", "heading", <<"P", " ", "F", "i", "v", "e">>)>>) }

PostdocDocs == SeqsUpTo(PostdocBlockPool, MaxBlocks) \ {<<>>}

Half(nodes) == [nodes |-> nodes]

Container(cls, halves) == [tag |-> "div", cls |-> cls, halves |-> halves]

HalfPool ==
    { Half(<<Img(<<"g", ".", "p", "n", "g">>)>>),
      Half(<<Img(<<>>)>>),
      Half(<<H("h3", "", <<"G", "r", "o", "u", "p", " ", " ", "A">>), Text(<<"l", "o", "o", "s", "e", " ", "t", "e", "x", "t">>), Para(<<"f", "i", "r", "s", "t", " ", "p", "a", "r", "a">>),
             Ul(<<<<"t", "o", "p", "i", "c", " ", "o", "n", "e">>, <<" ">>, <<"t", "o", "p", "i", "c", " ", "t", "w", "o">>>>), A(<<"H", "o", "m", "e", "P", "a", "g", "e">>, <<"h", "t", "t", "p", ":", "/", "/", "g", ".", "i", "n">>)>>),
      Half(<<H("h3", "", <<"G", "r", "o", "u", "p", " ", "A">>), PLink(<<"s", "e", "e">>, <<"G", "r", "o", "u", "p", " ", "L", "i", "n", "k">>, <<"/", "g">>)>>),
      Half(<<Para(<<"n", "o", " ", "t", "i", "t", "l", "e", " ", "h", "e", "r", "e">>)>>),
      Half(<<Img(<<"h", ".", "p", "n", "g">>), H("h3", "", <<"G", "r", "o", "u", "p", " ", "B">>)>>) }

Containers ==
    {Container("research-container", hs) : hs \in SeqsUpTo(HalfPool, MaxHalves)}

ContainerPool ==
    { Container("research-container",
                <<Half(<<Img(<<"g", ".", "p", "n", "g">>)>>),
                  Half(<<H("h3", "", <<"G", "r", "o", "u", "p", " ", "A">>), Para(<<"f", "i", "r", "s", "t", " ", "p", "a", "r", "a">>)>>)>>),
      Container("research-container",
                <<Half(<<H("h3", "", <<"G", "r", "o", "u", "p", " ", "A">>), Para(<<"o", "t", "h", "e", "r", " ", "p", "a", "r", "a">>)>>),
                  Half(<<Img(<<"g", "2", ".", "p", "n", "g">>)>>)>>),
      Container("research-container",
                <<Half(<<H("h3", "", <<"G", "r", "o", "u", "p", " ", "B">>)>>), Half(<<Img(<<"b", ".", "p", "n", "g">>)>>)>>),
      Container("other", <<Half(<<H("h3", "", <<"G", "r", "o", "u", "p", " ", "C">>)>>)>>) }

GroupDocs ==
    {<<c>> : c \in Containers} \cup (SeqsUpTo(ContainerPool, MaxBlocks) \ {<<>>})

EntityDocs(k) ==
    CASE k = "faculty" -> FacultyDocs
      [] k = "phd" -> StudentDocs
      [] k = "postdoc" -> PostdocDocs
      [] k = "rg" -> GroupDocs

----------------------------------------------------------------------------
(* The entity cleaners as a state machine *)

\* soup.find_all(tag, class_=cls)
FindAll(d, tag, cls) == SelectSeq(d, LAMBDA b : b.tag = tag /\ b.cls = cls)

\* extract_faculty_entries, "Backup": the parent tag of every text node that
\* holds "Email", in document order: the block itself for a text node of the
\* block, the child tag around the text node otherwise
EmailParentsOf(block) ==
    LET hits == SelectSeq(block.nodes, LAMBDA n : Contains(n.txt, <<"E", "m", "a", "i", "l">>))
    IN  [i \in DOMAIN hits |->
            IF hits[i].tag = "text" THEN block
            ELSE FBlock(hits[i].tag, "", <<FNode("text", hits[i].txt, <<>>)>>)]

EmailParents(d) == Flatten([i \in DOMAIN d |-> EmailParentsOf(d[i])])

StartPc(k) ==
    CASE k = "faculty" -> "articles"
      [] k = "phd" -> "students"
      [] k = "postdoc" -> "postdocs"
      [] k = "rg" -> "groups"

InitEntity ==
    /\ kind \in {"faculty", "phd", "postdoc", "rg"}
    /\ doc \in EntityDocs(kind)
    /\ pc = StartPc(kind)
    /\ idx = 1
    /\ entries = <<>>
    /\ final = <<>>
    /\ real_tables = <<>>
    /\ found = <<>>
    /\ escaped_tables = <<>>
    /\ visible_text = <<>>
    /\ all_lines = <<>>
    /\ cleaned = <<>>
    /\ faults = <<>>

\* One iteration of a loop "entry = parse(block); if entry: append(entry)"
AppendParsed(blocks, parsed) ==
    /\ idx <= Len(blocks)
    /\ entries' = entries \o parsed
    /\ idx' = idx + 1
    /\ UNCHANGED <<doc, pc, kind, final, cleanerVars>>

LoopDone(blocks, next) ==
    /\ idx > Len(blocks)
    /\ pc' = next
    /\ idx' = 1
    /\ UNCHANGED <<doc, kind, entries, final, cleanerVars>>

\* extract_faculty_entries: "IISER style <article>"
ParseArticle ==
    /\ pc = "articles"
    /\ idx <= Len(FindAll(doc, "article", ""))
    /\ AppendParsed(FindAll(doc, "article", ""),
                    parse_faculty_block(FindAll(doc, "article", "")[idx]))

ArticlesDone ==
    /\ pc = "articles"
    /\ LoopDone(FindAll(doc, "article", ""), "sites_blocks")

\* extract_faculty_entries: "Google Sites style blocks"
ParseSitesBlock ==
    /\ pc = "sites_blocks"
    /\ idx <= Len(FindAll(doc, "div", "tyJCtd"))
    /\ AppendParsed(FindAll(doc, "div", "tyJCtd"),
                    parse_faculty_block(FindAll(doc, "div", "tyJCtd")[idx]))

SitesBlocksDone ==
    /\ pc = "sites_blocks"
    /\ LoopDone(FindAll(doc, "div", "tyJCtd"), "email_parents")

\* extract_faculty_entries: "Backup: any block containing Email"
ParseEmailParent ==
    /\ pc = "email_parents"
    /\ idx <= Len(EmailParents(doc))
    /\ AppendParsed(EmailParents(doc), parse_faculty_block(EmailParents(doc)[idx]))

\* extract_faculty_entries: "Deduplicate" and return
DeduplicateFaculty ==
    /\ pc = "email_parents"
    /\ idx > Len(EmailParents(doc))
    /\ final' = DeduplicateByName(entries, <<>>, {})
    /\ pc' = "done"
    /\ UNCHANGED <<doc, idx, kind, entries, cleanerVars>>

\* clean_phds.clean_file: one block of soup.find_all("div", class_="tyJCtd")
ParseStudent ==
    /\ pc = "students"
    /\ idx <= Len(FindAll(doc, "div", "tyJCtd"))
    /\ AppendParsed(FindAll(doc, "div", "tyJCtd"),
                    parse_student_block(FindAll(doc, "div", "tyJCtd")[idx]))

\* clean_phds.clean_file: the students are written to the output
WriteStudents ==
    /\ pc = "students"
    /\ idx > Len(FindAll(doc, "div", "tyJCtd"))
    /\ final' = entries
    /\ pc' = "done"
    /\ UNCHANGED <<doc, idx, kind, entries, cleanerVars>>

\* clean_pd.clean_file: one article of soup.find_all("article", class_="one_third");
\* an exception of parse_postdoc_entry ends the run
ParsePostdoc ==
    /\ pc = "postdocs"
    /\ idx <= Len(FindAll(doc, "article", "one_third"))
    /\ LET r == parse_postdoc_entry(FindAll(doc, "article", "one_third")[idx])
       IN  /\ entries' = entries \o r.entry
           /\ pc' = IF r.raised THEN "failed" ELSE pc
    /\ idx' = idx + 1
    /\ UNCHANGED <<doc, kind, final, cleanerVars>>

WritePostdocs ==
    /\ pc = "postdocs"
    /\ idx > Len(FindAll(doc, "article", "one_third"))
    /\ final' = entries
    /\ pc' = "done"
    /\ UNCHANGED <<doc, idx, kind, entries, cleanerVars>>

\* clean_rg.clean_file: one container of
\* soup.find_all("div", class_="research-container")
ParseContainer ==
    /\ pc = "groups"
    /\ idx <= Len(FindAll(doc, "div", "research-container"))
    /\ AppendParsed(FindAll(doc, "div", "research-container"),
                    parse_research_container(FindAll(doc, "div", "research-container")[idx]))

WriteGroups ==
    /\ pc = "groups"
    /\ idx > Len(FindAll(doc, "div", "research-container"))
    /\ final' = entries
    /\ pc' = "done"
    /\ UNCHANGED <<doc, idx, kind, entries, cleanerVars>>

NextEntity ==
    \/ ParseArticle
    \/ ArticlesDone
    \/ ParseSitesBlock
    \/ SitesBlocksDone
    \/ ParseEmailParent
    \/ DeduplicateFaculty
    \/ ParseStudent
    \/ WriteStudents
    \/ ParsePostdoc
    \/ WritePostdocs
    \/ ParseContainer
    \/ WriteGroups

SpecEntity == InitEntity /\ [][NextEntity]_vars

----------------------------------------------------------------------------
(* Properties of the entity cleaners *)

Articles == FindAll(doc, "article", "")

SitesBlocks == FindAll(doc, "div", "tyJCtd")

\* The first index of a record of that name in a list of records
FirstNamed(records, name) ==
    CHOOSE i \in DOMAIN records :
        records[i].name = name /\ \A j \in 1..(i - 1) : records[j].name # name

\* Some other parsed record has the name of record i and differs from it
HasRival(records, i) ==
    \E j \in DOMAIN records :
        j # i /\ records[j].name = records[i].name /\ records[j] # records[i]

\* The output holds exactly one record of the name of record i, and it is the
\* first parsed record of that name
FirstSurvives(records, out, i) ==
    /\ Cardinality({k \in DOMAIN out : out[k].name = records[i].name}) = 1
    /\ \E k \in DOMAIN out : out[k] = records[FirstNamed(records, records[i].name)]

\* The records of the output are in the order in which they were parsed
KeepsDiscoveryOrder(records, out) ==
    \A k, l \in DOMAIN out :
        k < l => /\ \E i \in DOMAIN records : records[i] = out[k]
                 /\ \E i \in DOMAIN records : records[i] = out[l]
                 /\ FirstNamed(records, out[k].name) < FirstNamed(records, out[l].name)

Identity(r) == IF kind = "rg" THEN r.title ELSE r.name

\* C3: for PhD, postdoc and research-group documents the list of records
\* produced for one document never holds two records with the same identity
\* field (name, or title for groups).
C3_NoDuplicateIdentity ==
    (kind \in {"phd", "postdoc", "rg"} /\ pc = "done") =>
        \A i, j \in DOMAIN final : i # j => Identity(final[i]) # Identity(final[j])

OBFUSCATED_EMAILS == {<<"x", "[", "a", "t", "]", "i", "i", "s", "e", "r", "b", ".", "a", "c", ".", "i", "n">>, <<"x", "[", "A", "t", "]", "i", "i", "s", "e", "r", "b", ".", "a", "c", ".", "i", "n">>, <<"x", "(", "a", "t", ")", "i", "i", "s", "e", "r", "b", ".", "a", "c", ".", "i", "n">>}

HasObfuscatedEmail(block) ==
    \E i \in DOMAIN SplitSpace(BlockText(block)) :
        SplitSpace(BlockText(block))[i] \in OBFUSCATED_EMAILS

\* C4: when the text of a faculty block holds one of the tokens
\* x[at]iiserb.ac.in, x[At]iiserb.ac.in, x(at)iiserb.ac.in, parse_faculty_block
\* returns a record whose emails hold x@iiserb.ac.in.
C4_ObfuscatedEmailNormalized ==
    (kind = "faculty" /\ pc = "articles" /\ idx = 2 /\ HasObfuscatedEmail(Articles[1])) =>
        /\ Len(entries) = 1
        /\ \E e \in DOMAIN entries[1].emails : entries[1].emails[e] = <<"x", "@", "i", "i", "s", "e", "r", "b", ".", "a", "c", ".", "i", "n">>

SwapHalves(c) == [c EXCEPT !.halves = <<c.halves[2], c.halves[1]>>]

ContentOf(parsed) ==
    [i \in DOMAIN parsed |->
        <<parsed[i].title, parsed[i].description, parsed[i].topics, parsed[i].homepage>>]

\* C7: two research-group containers that differ only in the order of their
\* two halves, one of which is the half with the image, give records with the
\* same title, description, topics and homepage.
C7_HalfOrderIrrelevant ==
    (/\ kind = "rg" /\ pc = "groups" /\ idx = 2
     /\ Len(doc) = 1
     /\ doc[1].cls = "research-container"
     /\ Len(doc[1].halves) = 2
     /\ Cardinality({h \in DOMAIN doc[1].halves : HasImage(doc[1].halves[h])}) = 1) =>
        ContentOf(entries) = ContentOf(parse_research_container(SwapHalves(doc[1])))

\* The candidate block that the next parsing step of the faculty cleaner takes
FacultyCandidate ==
    CASE pc = "articles" -> Articles[idx]
      [] pc = "sites_blocks" -> SitesBlocks[idx]
      [] pc = "email_parents" -> EmailParents(doc)[idx]

AT_SIGNS == {<<"@">>, <<"[", "a", "t", "]">>, <<"[", "A", "t", "]">>, <<"[", "A", "T", "]">>, <<"(", "a", "t", ")">>}

\* The block has no h6/h5/h4/h3, no span or link of at most 6 words with an
\* honorific, and no token with an institutional address
NoIdentity(block) ==
    /\ \A n \in DOMAIN block.nodes : block.nodes[n].tag \notin {"h6", "h5", "h4", "h3"}
    /\ \A n \in DOMAIN block.nodes :
          block.nodes[n].tag \in {"span", "a"} =>
              \/ Len(SplitSpace(block.nodes[n].txt)) > 6
              \/ \A hon \in {<<"p", "r", "o", "f">>, <<"d", "r">>, <<"m", "r">>, <<"m", "s">>} :
                    ~Contains(Lower(block.nodes[n].txt), hon)
    /\ \A t \in DOMAIN SplitSpace(BlockText(block)) :
          \A at \in AT_SIGNS :
              ~Contains(SplitSpace(BlockText(block))[t], at \o <<"i", "i", "s", "e", "r", "b", ".", "a", "c", ".", "i", "n">>)

AllFieldsEmpty(r) ==
    /\ r.name = <<>> /\ r.role = <<>> /\ r.emails = <<>>
    /\ r.phone = <<>> /\ r.research = <<>> /\ r.homepage = <<>>

\* C8: parse_faculty_block returns no record for a container without a
\* heading h6..h3, without a span or link of at most 6 words holding an
\* honorific and without a token holding an institutional email; it never
\* returns a record whose fields are all empty.
C8_NullWithoutIdentity ==
    [][(kind = "faculty" /\ idx' = idx + 1) =>
            /\ NoIdentity(FacultyCandidate) => entries' = entries
            /\ \A i \in DOMAIN entries' : ~AllFieldsEmpty(entries'[i])]_vars

\* An article with text, a link and nothing that identifies a person was
\* parsed and gave no record
C8_Witness ==
    /\ kind = "faculty"
    /\ pc = "articles"
    /\ idx = 2
    /\ NoIdentity(Articles[1])
    /\ BlockText(Articles[1]) # <<>>
    /\ \E n \in DOMAIN Articles[1].nodes : Articles[1].nodes[n].href # <<>>
    /\ entries = <<>>

\* C9: for every kind the block parser returns a record for a candidate
\* container if and only if the identity field it extracted is non-empty, and
\* never hands the caller a record with an empty identity field.
C9_RecordIffIdentity ==
    /\ \A i \in DOMAIN entries : Identity(entries[i]) # <<>>
    /\ (kind = "postdoc" /\ idx = 2 /\ PostdocName(FindAll(doc, "article", "one_third")[1]) # <<>>) =>
            (Len(entries) = 1 /\ entries[1].name = PostdocName(FindAll(doc, "article", "one_third")[1]))

----------------------------------------------------------------------------
(* Further properties of the generic cleaner *)

SECTIONS_AND_HEADINGS == {"section", "h1", "h2", "h3", "h4", "h5", "h6"}

\* The text line and the link lines of one visited tag
OwnLines(node) ==
    IF node.k = "elem" /\ node.tag \in TEXT_TAGS
    THEN LET items == ParseItems(node.items)
             txt == Join(Words(items), " ")
         IN  (IF txt # <<>> THEN <<txt>> ELSE <<>>) \o LinkParts(items)
    ELSE <<>>

\* The lines of a document in which every section and every heading h1..h6
\* is followed by one blank line
LinesWithBreaks(d) ==
    Flatten([n \in DOMAIN d |->
        OwnLines(d[n]) \o (IF d[n].k = "elem" /\ d[n].tag \in SECTIONS_AND_HEADINGS
                           THEN << <<>> >> ELSE <<>>)])

\* C11: extract_visible_text emits a blank line directly after the text and
\* link lines of every visited section and of every visited heading h1..h6,
\* whether or not the node produced text.
C11_BlankLineAfterHeadings ==
    pc \in {"main", "done"} => visible_text = Join(LinesWithBreaks(doc), "\n")

\* The tables rendered from candidate k, when its try block ran to the end
RenderedFrom(k) ==
    IF faults[k] = "ok" THEN TableTexts(FindTables(unescape(Candidates[k]))) ELSE <<>>

\* C14: the list returned by extract_escaped_tables holds no two equal
\* strings, holds every rendered table found through an attribute or a text
\* node, and orders them by their first occurrence among the candidates, the
\* attribute matches before the text-node matches.
C14_DeduplicatedFirstSeenOrder ==
    pc \in {"visible_text", "main", "done"} =>
        LET rendered == Flatten([k \in DOMAIN Candidates |-> RenderedFrom(k)])
        IN  /\ \A i, j \in DOMAIN escaped_tables :
                  i # j => escaped_tables[i] # escaped_tables[j]
            /\ \A t \in DOMAIN rendered :
                  \E i \in DOMAIN escaped_tables : escaped_tables[i] = rendered[t]
            /\ \A i \in DOMAIN escaped_tables :
                  \E t \in DOMAIN rendered : escaped_tables[i] = rendered[t]
            /\ \A i, j \in DOMAIN escaped_tables :
                  i < j => FirstIndex(rendered, escaped_tables[i])
                              < FirstIndex(rendered, escaped_tables[j])

\* A table found through an attribute is found again through a text node,
\* next to another table
C14_Witness ==
    /\ pc = "done"
    /\ Len(escaped_tables) >= 2
    /\ \E k, l \in DOMAIN Candidates :
          /\ k <= Len(AttrCandidates(doc))
          /\ l > Len(AttrCandidates(doc))
          /\ RenderedFrom(k) # <<>>
          /\ RenderedFrom(l) # <<>>
          /\ \E t \in DOMAIN RenderedFrom(k) : RenderedFrom(k)[t] = RenderedFrom(l)[1]

----------------------------------------------------------------------------
(* Further properties of the entity cleaners *)

\* The target of the first link of the block whose target has a scheme
FirstAbsoluteLink(block) ==
    LET links == SelectSeq(block.nodes,
                           LAMBDA n : n.tag = "a" /\ Contains(n.href, <<":", "/", "/">>))
    IN  IF links = <<>> THEN <<>> ELSE links[1].href

\* C12: the homepage of a faculty record is the target of the first link of
\* the block, in document order, whose target is absolute; later absolute
\* links do not change it.
C12_HomepageIsFirstAbsoluteLink ==
    (kind = "faculty" /\ pc = "articles" /\ idx = 2 /\ Len(entries) = 1) =>
        entries[1].homepage = FirstAbsoluteLink(Articles[1])

\* C13: parse_research_container yields no record for a container in which
\* no half holds an image, and for a container in which every half holds one
\* (no text half), even when a half holds a non-empty h3 title.
C13_NoRecordWithoutImageOrText ==
    (/\ kind = "rg" /\ pc = "groups" /\ idx = 2
     /\ Len(doc) = 1
     /\ \/ \A h \in DOMAIN doc[1].halves : ~HasImage(doc[1].halves[h])
        \/ \A h \in DOMAIN doc[1].halves : HasImage(doc[1].halves[h])) =>
        entries = <<>>

\* The normalized texts of the direct <p> children and of the direct text
\* nodes of a half, empty ones left out, in document order
DescriptionParts(half) ==
    LET kids == SelectSeq(half.nodes, LAMBDA n : n.tag \in {"p", "text"})
    IN  SelectSeq([i \in DOMAIN kids |-> norm(NodeText(kids[i]))], LAMBDA t : t # <<>>)

\* C15: the description of a group is the single-space join, in document
\* order of the direct children of the text half, of the normalized text of
\* every non-empty paragraph and every non-empty loose text node; a loose text
\* node before a paragraph comes before that paragraph's text.
C15_DescriptionInDocumentOrder ==
    (kind = "rg" /\ pc = "groups" /\ idx = 2 /\ Len(doc) = 1 /\ Len(entries) = 1) =>
        entries[1].description =
            Join(DescriptionParts(doc[1].halves[TextBlockIndex(doc[1].halves)]), " ")

NEXT_LABELS == {<<"S", "u", "p", "e", "r", "v", "i", "s", "o", "r">>, <<"E", "m", "a", "i", "l">>}

\* The normalized text between the end of the first `label` of the text and
\* the next label of NEXT_LABELS after it, or the end of the text
Between(text, label) ==
    LET e == FindFrom(text, label, 1) + Len(label)
        nexts == {FindFrom(text, l, e) : l \in NEXT_LABELS} \ {0}
        stop == IF nexts = {} THEN Len(text) + 1
                ELSE CHOOSE n \in nexts : \A m \in nexts : n <= m
    IN  norm(SubSeq(text, e, stop - 1))

\* The paragraphs of a block, as the parsers read them
ParagraphTexts(block) ==
    LET ps == SelectSeq(block.nodes, LAMBDA n : n.tag = "p")
    IN  [i \in DOMAIN ps |-> norm(NodeText(ps[i]))]

\* article.find("p"): the first paragraph only
FirstParagraphText(block) ==
    IF ParagraphTexts(block) = <<>> THEN <<>> ELSE <<ParagraphTexts(block)[1]>>

\* The value of the field is the text between its label and the next label,
\* for the one paragraph of the block that holds the label
FieldIsBetween(texts, label, value) ==
    \A i \in DOMAIN texts :
        (/\ Contains(texts[i], label)
         /\ \A j \in DOMAIN texts : j # i => ~Contains(texts[j], label))
            => value = Between(texts[i], label)

\* C16: for PhD and postdoc blocks the year of joining and the supervisor are
\* each the text between their label and the next known label (Supervisor,
\* Email), or the text up to the end when no label follows; the value never
\* holds the text of a following label or field.
C16_FieldEndsAtNextLabel ==
    /\ (kind = "phd" /\ pc = "students" /\ idx = 2 /\ Len(entries) = 1) =>
          LET texts == ParagraphTexts(SitesBlocks[1])
          IN  /\ FieldIsBetween(texts, <<"Y", "e", "a", "r", " ", "o", "f", " ", "J", "o", "i", "n", "i", "n", "g", ":">>, entries[1].year_of_joining)
              /\ FieldIsBetween(texts, <<"S", "u", "p", "e", "r", "v", "i", "s", "o", "r", ":">>, entries[1].supervisor)
    /\ (kind = "postdoc" /\ pc = "postdocs" /\ idx = 2 /\ Len(entries) = 1) =>
          LET texts == FirstParagraphText(FindAll(doc, "article", "one_third")[1])
          IN  /\ FieldIsBetween(texts, <<"Y", "e", "a", "r", " ", "o", "f", " ", "J", "o", "i", "n", "i", "n", "g", ":">>, entries[1].year_of_joining)
              /\ FieldIsBetween(texts, <<"S", "u", "p", "e", "r", "v", "i", "s", "o", "r", " ", "N", "a", "m", "e", ":">>, entries[1].supervisor)

Deobfuscated(s) == Replace(s, <<"[", "a", "t", "]">>, <<"@">>)

\* The email that an anchor of an "Email" paragraph gives: the address of a
\* mailto: link, or the text of an anchor without target that holds "@";
\* nothing otherwise
EmailOfAnchor(p) ==
    IF StartsWith(StripSpace(p.href), <<"m", "a", "i", "l", "t", "o", ":">>)
    THEN Deobfuscated(SubSeq(StripSpace(p.href), Len(<<"m", "a", "i", "l", "t", "o", ":">>) + 1, Len(StripSpace(p.href))))
    ELSE IF StripSpace(p.href) = <<>> /\ Contains(Deobfuscated(StripSpace(p.atxt)), <<"@">>)
    THEN Deobfuscated(StripSpace(p.atxt))
    ELSE <<>>

\* C17: parse_student_block sets the email from the anchor of an "Email"
\* paragraph only when the anchor's target is a mailto: link, or when the
\* target is empty and the anchor's text holds "@" after de-obfuscation; any
\* other anchor leaves the email as it was.
C17_EmailOnlyFromMailtoOrBareAnchor ==
    (kind = "phd" /\ pc = "students" /\ idx = 2 /\ Len(entries) = 1) =>
        LET ps == SelectSeq(SitesBlocks[1].nodes,
                            LAMBDA n : n.tag = "p" /\ n.a
                                       /\ Contains(norm(NodeText(n)), <<"E", "m", "a", "i", "l">>))
        IN  /\ ps = <<>> => entries[1].email = <<>>
            /\ Len(ps) = 1 => entries[1].email = EmailOfAnchor(ps[1])

\* C18: parse_postdoc_entry ends with a record or with null for every
\* candidate article and never with an exception, also when a label of the
\* first paragraph lacks its colon or "Email:" is the last token.
C18_NeverRaises ==
    kind = "postdoc" => pc # "failed"

====
